---- MODULE Spec2Model ----
(***************************************************************************)
(* Entitlement lifecycle of the Hatchling backend: the user documents of   *)
(* the Firestore "users" collection, the Stripe webhook handlers, the      *)
(* subscription operations, the admin override and the decorators that     *)
(* gate the entry and nudge routes.                                        *)
(***************************************************************************)
EXTENDS Integers, Sequences, FiniteSets, TLC

\* ------------------------------------------------------------- bounds
\* invoice.attempt_count ranges over 1..MaxAttemptCount
MaxAttemptCount == 3
\* entry documents that may exist (uuid4 ids are fresh, so this many creates)
MaxEntries == 1
\* nudge documents that may exist
MaxNudges == 1
\* schedule times of the nudge requests range over 1..MaxTime
MaxTime == 2
\* the instants of a day the clock and the schedules distinguish
SlotsPerDay == 2

\* --------------------------------------------------- program constants
\* stripe_webhooks.py: "if attempt_count >= 3" selects the final status
FinalAttempt == 3
TrialDaysDefault == 14
\* create_nudge stores "last_sent": None; time stamps are positive
NoTime == 0

\* ------------------------------------------------------ value domains
\* A key that is missing from a Firestore document, and Python's None.
Absent == "absent"
NoneVal == "None"
\* Python booleans as stored in a document
PyTrue == "True"
PyFalse == "False"

UserIds == {"u1", "u2"}
Roles == {"admin", "parent"}
CustomerIds == {"cus_1", "cus_2"}
SubscriptionIds == {"sub_1"}
\* subscription.status values Stripe reports to sync_subscription_status
StripeStatuses == {"trialing", "active", "past_due", "canceled"}
\* subscription_status values an administrator sends to update_user
AdminStatuses == {"none", "trialing", "active", "cancelled", "payment_failed_final"}
EventTypes == {"customer.subscription.trial_will_end", "invoice.payment_succeeded",
               "invoice.payment_failed", "customer.updated"}
\* the time stamp Stripe or the clock supplies for the end of a trial
TrialEndTs == "ts"

VARIABLES
    users,      \* Firestore collection "users": id of each document -> document
    entries,    \* Firestore collection "entries": id of each document -> document
    nudges,     \* Firestore collection "nudges": id of each document -> document
    resp,       \* the response of the last request handled
    delivered,  \* the Stripe events whose delivery has been handled
    pend,       \* per worker: the request it is handling and how far it is
    base,       \* the users collection when the workers' requests began
    now,        \* the server's clock
    sent,       \* per nudge: the messages send_sms has delivered for it
    scans,      \* per worker: the process_nudges run it is in
    calc,       \* a monthly recurrence: anchor, reference time and result
    invites,    \* Firestore collection "invites": invite code -> document
    verification_codes,  \* routes/sms.py's dict: phone number -> code record
    code_docs   \* Firestore collection "verification_codes": id -> document

vars == <<users, entries, nudges, resp, delivered, pend, base, now, sent, scans, calc,
          invites, verification_codes, code_docs>>

\* the invitations and the phone verification codes
onboard == <<invites, verification_codes, code_docs>>

\* the clock, the dispatch history and the runs of process_nudges
sched == <<now, sent, scans, calc, onboard>>

\* what the requests handled one at a time leave alone
aux == <<delivered, pend, base, sched>>

\* ------------------------------------------------- Firestore documents
\* document.update(fields): merge the given keys, keep the others
Update(doc, upd) ==
    [k \in DOMAIN doc |-> IF k \in DOMAIN upd THEN upd[k] ELSE doc[k]]

\* dict.get(key, default)
Get(doc, key, default) == IF doc[key] = Absent THEN default ELSE doc[key]

\* users_ref.document(user_id).update(fields) on the collection
UpdateUser(us, uid, upd) == [us EXCEPT ![uid] = Update(us[uid], upd)]

\* A user document as accept_invite creates it: none of the billing keys.
NewUser(role) ==
    [role |-> role,
     phone_number |-> "phone",
     stripe_customer_id |-> Absent,
     subscription_status |-> Absent,
     subscription_id |-> Absent,
     permissions |-> Absent,
     trial_end |-> Absent,
     subscription_active |-> Absent,
     subscription_trial_end |-> Absent,
     invited_by |-> Absent,
     status |-> "active",
     phone_verified |-> Absent]

\* user_doc.exists
Exists(us, uid) == uid \in DOMAIN us

\* users_ref.where(field, '==', value).limit(1): the ids that match
UsersWhere(us, field, value) ==
    {u \in DOMAIN us : us[u][field] = value}

\* the first document of a query result (limit(1), then user_docs[0])
FirstOf(S) == CHOOSE u \in S : TRUE

\* ------------------------------------------------------------ responses
Resp(op, code, outcome, user, arg) ==
    [op |-> op, code |-> code, outcome |-> outcome, user |-> user, arg |-> arg,
     before |-> "none"]

\* The workers that handle requests at the same time
Workers == {1, 2}

\* A worker's request: op names the handler, ev is the event of a webhook,
\* user_id and status are the parameters of the other handlers; phase is
\* "idle", "start" (nothing done), "read" (lookup done, target holds the
\* document found) or "done".
Idle ==
    [op |-> "none", ev |-> [type |-> "none", customer |-> "none",
                            subscription |-> "none", attempt_count |-> 1],
     user_id |-> "none", status |-> "none", phase |-> "idle", target |-> "none"]

\* ------------------------------------------------------------- time
\* A time is the number that orders as its isoformat() string does: year,
\* month, day, then the time of day, which is one of SlotsPerDay instants
\* (hour, minute and second together).
Stamp(y, m, d, tod) == ((y * 12 + (m - 1)) * 31 + (d - 1)) * SlotsPerDay + tod

\* datetime.year, .month, .day and the time of day
YearOf(t) == (t \div SlotsPerDay) \div (31 * 12)
MonthOf(t) == (((t \div SlotsPerDay) \div 31) % 12) + 1
DayOf(t) == ((t \div SlotsPerDay) % 31) + 1
TodOf(t) == t % SlotsPerDay

\* the days of a month as datetime() accepts them; a day beyond them
\* raises ValueError
IsLeap(y) == y % 4 = 0 /\ (y % 100 # 0 \/ y % 400 = 0)
DaysInMonth(y, m) ==
    IF m = 2 THEN (IF IsLeap(y) THEN 29 ELSE 28)
    ELSE IF m \in {4, 6, 9, 11} THEN 30 ELSE 31
ValidDate(y, m, d) == 1 <= d /\ d <= DaysInMonth(y, m)

\* t + timedelta(days=n), for the n of a day and of a week: the sum ends
\* in the month of t or in the month after it
AddDays(t, n) ==
    LET y == YearOf(t)
        m == MonthOf(t)
        d == DayOf(t)
        last == DaysInMonth(y, m) IN
    IF d + n <= last THEN Stamp(y, m, d + n, TodOf(t))
    ELSE IF m < 12 THEN Stamp(y, m + 1, d + n - last, TodOf(t))
    ELSE Stamp(y + 1, 1, d + n - last, TodOf(t))

\* t + timedelta(days=1)
NextDay(t) == AddDays(t, 1)

\* datetime.replace(hour, minute, second) with those of schedule_time
ReplaceTod(t, schedule_time) ==
    Stamp(YearOf(t), MonthOf(t), DayOf(t), TodOf(schedule_time))

\* the clock when the model starts, and the times at which a request
\* arrives: every instant of the days ClockDays
ClockStart == Stamp(2024, 1, 30, 0)
ClockDays == {<<2024, 1, 30>>, <<2024, 1, 31>>, <<2024, 2, 1>>, <<2024, 2, 6>>,
              <<2024, 2, 7>>, <<2024, 2, 29>>, <<2024, 3, 1>>}
Clock == {Stamp(c[1], c[2], c[3], tod) : c \in ClockDays, tod \in 0..(SlotsPerDay - 1)}

\* no message delivered for a nudge yet: due is the next_send of the
\* occurrence send_sms delivered last, twice whether some occurrence was
\* delivered more than once
NoSent == [due |-> NoTime, twice |-> FALSE]

\* a worker that is not in process_nudges
IdleScan == [phase |-> "idle", docs |-> <<>>, dry_run |-> FALSE, sent_count |-> 0]

\* no recurrence computed
NoCalc == [anchor |-> NoTime, reference |-> NoTime, result |-> NoTime, done |-> FALSE]

InitStore ==
    /\ \E r \in Roles : users = [u \in {"u1"} |-> NewUser(r)]
    /\ entries = <<>>
    /\ nudges = <<>>
    /\ resp = Resp("init", 0, "none", "none", 0)
    /\ delivered = {}
    /\ pend = [w \in Workers |-> Idle]
    /\ base = users

InitOnboard ==
    /\ invites = <<>>
    /\ verification_codes = <<>>
    /\ code_docs = <<>>

InitSched ==
    /\ InitOnboard
    /\ now = ClockStart
    /\ sent = [n \in 1..MaxNudges |-> NoSent]
    /\ scans = [w \in Workers |-> IdleScan]

Init == InitStore /\ InitSched /\ calc = NoCalc

\* ============================================================ webhooks
\* the fields handle_trial_ending writes
TrialEndingUpdate(subscription_id) ==
    [subscription_status |-> "trial_ending", subscription_id |-> subscription_id]

\* handle_trial_ending(data): the update it performs, or the early return
TrialEndingResult(us, customer_id, subscription_id) ==
    LET found == UsersWhere(us, "stripe_customer_id", customer_id) IN
    IF found = {}
    THEN [users |-> us, code |-> 404, outcome |-> "User not found", user |-> "none"]
    ELSE LET uid == FirstOf(found) IN
         [users |-> UpdateUser(us, uid, TrialEndingUpdate(subscription_id)),
          code |-> 200, outcome |-> "success", user |-> uid]

\* the fields handle_payment_succeeded writes
PaymentSucceededUpdate(subscription_id) ==
    [subscription_status |-> "active", subscription_id |-> subscription_id]

\* handle_payment_succeeded(data) without the test of subscription_id
PaymentSucceededResult_AnyInvoice(us, customer_id, subscription_id) ==
    LET found == UsersWhere(us, "stripe_customer_id", customer_id) IN
    IF found = {}
    THEN [users |-> us, code |-> 404, outcome |-> "User not found", user |-> "none"]
    ELSE LET uid == FirstOf(found) IN
         [users |-> UpdateUser(us, uid, PaymentSucceededUpdate(subscription_id)),
          code |-> 200, outcome |-> "success", user |-> uid]

\* handle_payment_succeeded(data)
PaymentSucceededResult(us, customer_id, subscription_id) ==
    IF subscription_id = NoneVal
    THEN [users |-> us, code |-> 200, outcome |-> "ignored", user |-> "none"]
    ELSE LET found == UsersWhere(us, "stripe_customer_id", customer_id) IN
         IF found = {}
         THEN [users |-> us, code |-> 404, outcome |-> "User not found", user |-> "none"]
         ELSE LET uid == FirstOf(found) IN
              [users |-> UpdateUser(us, uid, PaymentSucceededUpdate(subscription_id)),
               code |-> 200, outcome |-> "success", user |-> uid]

\* handle_payment_failed with the comparison off by one
FailedStatus_OffByOne(attempt_count) ==
    IF attempt_count > FinalAttempt THEN "payment_failed_final" ELSE "payment_failed"

\* the status handle_payment_failed stores for an attempt count
FailedStatus(attempt_count) ==
    IF attempt_count >= FinalAttempt THEN "payment_failed_final" ELSE "payment_failed"

\* the fields handle_payment_failed writes
FailedUpdate(subscription_id, attempt_count) ==
    IF attempt_count >= FinalAttempt
    THEN [subscription_status |-> FailedStatus(attempt_count),
          subscription_id |-> subscription_id,
          permissions |-> "read_only"]
    ELSE [subscription_status |-> FailedStatus(attempt_count),
          subscription_id |-> subscription_id]

\* handle_payment_failed(data)
PaymentFailedResult(us, customer_id, subscription_id, attempt_count) ==
    IF subscription_id = NoneVal
    THEN [users |-> us, code |-> 200, outcome |-> "ignored", user |-> "none"]
    ELSE LET found == UsersWhere(us, "stripe_customer_id", customer_id) IN
         IF found = {}
         THEN [users |-> us, code |-> 404, outcome |-> "User not found", user |-> "none"]
         ELSE LET uid == FirstOf(found) IN
              [users |-> UpdateUser(us, uid, FailedUpdate(subscription_id, attempt_count)),
               code |-> 200, outcome |-> "success", user |-> uid]

\* The verified events Stripe may deliver.  trial_will_end carries the
\* subscription as data.id, the invoice events as data.subscription (which
\* is None for an invoice that belongs to no subscription).
Events ==
    {ev \in [type : EventTypes,
             customer : CustomerIds,
             subscription : SubscriptionIds \cup {NoneVal},
             attempt_count : 1..MaxAttemptCount] :
        \* only handle_payment_failed reads attempt_count (default 1)
        ev.type # "invoice.payment_failed" => ev.attempt_count = 1}

\* webhook(): dispatch on the event type
WebhookResult(us, ev) ==
    IF ev.type = "customer.subscription.trial_will_end"
    THEN TrialEndingResult(us, ev.customer, ev.subscription)
    ELSE IF ev.type = "invoice.payment_succeeded"
    THEN PaymentSucceededResult(us, ev.customer, ev.subscription)
    ELSE IF ev.type = "invoice.payment_failed"
    THEN PaymentFailedResult(us, ev.customer, ev.subscription, ev.attempt_count)
    ELSE [users |-> us, code |-> 200, outcome |-> "ignored", user |-> "none"]

\* One POST /api/webhook/stripe handled from signature check to response.
\* The response also keeps, for a webhook that found its user, the status
\* the user had when the event arrived.
HandleEvent(ev) ==
    LET r == WebhookResult(users, ev) IN
    /\ users' = r.users
    /\ resp' = [Resp(ev.type, r.code, r.outcome, r.user, ev.attempt_count)
                  EXCEPT !.before = IF r.user \in DOMAIN users
                                    THEN users[r.user].subscription_status
                                    ELSE "none"]
    /\ UNCHANGED <<entries, nudges>>

Webhook(ev) == HandleEvent(ev) /\ UNCHANGED aux

\* ============================================ utils/stripe_client.py
\* create_customer(user_id, email, name); customer_id is the id Stripe
\* gives the new customer, ok whether stripe.Customer.create succeeded
CreateCustomerResult(us, user_id, customer_id, ok) ==
    IF ~ok \/ ~Exists(us, user_id)
    THEN [users |-> us, code |-> 400, outcome |-> "error", user |-> "none"]
    ELSE [users |-> UpdateUser(us, user_id,
                       [stripe_customer_id |-> customer_id,
                        subscription_status |-> "none"]),
          code |-> 200, outcome |-> "success", user |-> user_id]

CreateCustomer(user_id, customer_id, ok) ==
    LET r == CreateCustomerResult(users, user_id, customer_id, ok) IN
    \* a new Stripe customer never has the id of a customer already stored
    /\ UsersWhere(users, "stripe_customer_id", customer_id) = {}
    /\ users' = r.users
    /\ resp' = Resp("create_customer", r.code, r.outcome, r.user, 0)
    /\ UNCHANGED <<entries, nudges, aux>>

\* subscription.trial_end as Stripe computes it from trial_period_days
StripeTrialEnd(trial_days) == IF trial_days > 0 THEN TrialEndTs ELSE NoneVal

\* create_subscription(customer_id, price_id, trial_days)
CreateSubscriptionResult(us, customer_id, subscription_id, trial_days, ok) ==
    IF ~ok
    THEN [users |-> us, code |-> 400, outcome |-> "error", user |-> "none"]
    ELSE LET found == UsersWhere(us, "stripe_customer_id", customer_id) IN
         IF found = {}
         THEN [users |-> us, code |-> 200, outcome |-> "success", user |-> "none"]
         ELSE LET uid == FirstOf(found) IN
              [users |-> UpdateUser(us, uid,
                            [subscription_id |-> subscription_id,
                             subscription_status |-> "trialing",
                             trial_end |-> StripeTrialEnd(trial_days),
                             permissions |-> "full"]),
               code |-> 200, outcome |-> "success", user |-> uid]

CreateSubscription(customer_id, subscription_id, trial_days, ok) ==
    LET r == CreateSubscriptionResult(users, customer_id, subscription_id, trial_days, ok) IN
    /\ users' = r.users
    /\ resp' = Resp("create_subscription", r.code, r.outcome, r.user, trial_days)
    /\ UNCHANGED <<entries, nudges, aux>>

\* the fields cancel_subscription of utils/stripe_client.py writes
ClientCancelUpdate ==
    [subscription_status |-> "cancelled", permissions |-> "read_only"]

\* cancel_subscription(subscription_id) of utils/stripe_client.py
ClientCancelResult(us, subscription_id, ok) ==
    IF ~ok
    THEN [users |-> us, code |-> 400, outcome |-> "error", user |-> "none"]
    ELSE LET found == UsersWhere(us, "subscription_id", subscription_id) IN
         IF found = {}
         THEN [users |-> us, code |-> 200, outcome |-> "success", user |-> "none"]
         ELSE LET uid == FirstOf(found) IN
              [users |-> UpdateUser(us, uid, ClientCancelUpdate),
               code |-> 200, outcome |-> "success", user |-> uid]

ClientCancel(subscription_id, ok) ==
    LET r == ClientCancelResult(users, subscription_id, ok) IN
    /\ users' = r.users
    /\ resp' = Resp("client_cancel", r.code, r.outcome, r.user, 0)
    /\ UNCHANGED <<entries, nudges, aux>>

\* the permissions sync_subscription_status derives from Stripe's status
SyncPermissions(status) == IF status \in {"trialing", "active"} THEN "full" ELSE "read_only"

\* the fields sync_subscription_status writes; stripe_status is the status
\* of the customer's most recent subscription, NoneVal when the customer
\* has none
SyncUpdate(stripe_status, subscription_id) ==
    IF stripe_status = NoneVal
    THEN [subscription_status |-> "none",
          subscription_id |-> NoneVal,
          permissions |-> "read_only"]
    ELSE [subscription_status |-> stripe_status,
          subscription_id |-> subscription_id,
          permissions |-> SyncPermissions(stripe_status)]

\* sync_subscription_status(user_id, customer_id)
SyncResult(us, user_id, stripe_status, subscription_id, ok) ==
    IF ~ok \/ ~Exists(us, user_id)
    THEN [users |-> us, code |-> 400, outcome |-> "error", user |-> "none"]
    ELSE [users |-> UpdateUser(us, user_id, SyncUpdate(stripe_status, subscription_id)),
          code |-> 200,
          outcome |-> IF stripe_status = NoneVal THEN "none" ELSE stripe_status,
          user |-> user_id]

SyncSubscriptionStatus(user_id, stripe_status, subscription_id, ok) ==
    LET r == SyncResult(users, user_id, stripe_status, subscription_id, ok) IN
    /\ users' = r.users
    /\ resp' = Resp("sync", r.code, r.outcome, r.user, 0)
    /\ UNCHANGED <<entries, nudges, aux>>

\* ================================================ routes/stripe_routes.py
\* setup_subscription(): POST /api/subscription/setup
SetupResult(us, user_id) ==
    IF ~Exists(us, user_id)
    THEN [users |-> us, code |-> 404, outcome |-> "User not found", user |-> "none"]
    ELSE [users |-> UpdateUser(us, user_id,
                       [subscription_active |-> PyTrue,
                        subscription_status |-> "trialing",
                        subscription_trial_end |-> TrialEndTs]),
          code |-> 200, outcome |-> "success", user |-> user_id]

SetupSubscription(user_id) ==
    LET r == SetupResult(users, user_id) IN
    /\ users' = r.users
    /\ resp' = Resp("setup_subscription", r.code, r.outcome, r.user, TrialDaysDefault)
    /\ UNCHANGED <<entries, nudges, aux>>

\* the fields cancel_subscription of routes/stripe_routes.py writes
RouteCancelUpdate ==
    [subscription_active |-> PyFalse, subscription_status |-> "cancelled"]

\* cancel_subscription(): POST /api/subscription/cancel
RouteCancelResult(us, user_id) ==
    IF ~Exists(us, user_id)
    THEN [users |-> us, code |-> 404, outcome |-> "User not found", user |-> "none"]
    ELSE IF Get(us[user_id], "subscription_active", PyFalse) # PyTrue
    THEN [users |-> us, code |-> 400, outcome |-> "No active subscription found",
          user |-> "none"]
    ELSE [users |-> UpdateUser(us, user_id, RouteCancelUpdate),
          code |-> 200, outcome |-> "success", user |-> user_id]

RouteCancel(user_id) ==
    LET r == RouteCancelResult(users, user_id) IN
    /\ users' = r.users
    /\ resp' = Resp("route_cancel", r.code, r.outcome, r.user, 0)
    /\ UNCHANGED <<entries, nudges, aux>>

\* ======================================================= routes/admin.py
\* the fields update_user writes for a subscription_status in the body
AdminUpdateData(status) ==
    IF status = "cancelled"
    THEN [subscription_status |-> status, subscription_active |-> PyFalse]
    ELSE IF status = "active"
    THEN [subscription_status |-> status, subscription_active |-> PyTrue]
    ELSE [subscription_status |-> status]

\* update_user(user_id): PATCH /api/admin/user/<user_id>
AdminUpdateResult(us, user_id, status) ==
    IF ~Exists(us, user_id)
    THEN [users |-> us, code |-> 404, outcome |-> "User not found", user |-> "none"]
    ELSE [users |-> UpdateUser(us, user_id, AdminUpdateData(status)),
          code |-> 200, outcome |-> "success", user |-> user_id]

AdminUpdateUser(user_id, status) ==
    LET r == AdminUpdateResult(users, user_id, status) IN
    /\ users' = r.users
    /\ resp' = Resp("admin_update_user", r.code, r.outcome, r.user, 0)
    /\ UNCHANGED <<entries, nudges, aux>>

\* ========================================================= utils/auth.py
\* get_user_permissions(user_id): the context authenticate stores in g.user
UserContext(us, uid) ==
    [user_id |-> uid,
     role |-> Get(us[uid], "role", "user"),
     permissions |-> Get(us[uid], "permissions", "read_only"),
     subscription_status |-> Get(us[uid], "subscription_status", "none")]

\* The decorators return 0 when they call the wrapped handler, and the
\* HTTP status of their refusal otherwise.
\* authenticate: uid is the id of the X-User-ID header or of the token
Authenticate(us, uid) == IF Exists(us, uid) THEN 0 ELSE 401

\* check_subscription_status letting through every status but 'none'
CheckSubscriptionStatus_AnySubscription(us, uid) ==
    IF Authenticate(us, uid) # 0 THEN 401
    ELSE LET g == UserContext(us, uid) IN
         IF g.role = "admin" THEN 0
         ELSE IF g.subscription_status # "none" THEN 0
         ELSE 402

\* check_subscription_status
CheckSubscriptionStatus(us, uid) ==
    IF Authenticate(us, uid) # 0 THEN 401
    ELSE LET g == UserContext(us, uid) IN
         IF g.role = "admin" THEN 0
         ELSE IF g.subscription_status \in {"active", "trialing"} THEN 0
         ELSE 402

\* require_permissions without the admin bypass
RequirePermissions_NoBypass(us, uid, required) ==
    IF Authenticate(us, uid) # 0 THEN 401
    ELSE LET g == UserContext(us, uid) IN
         IF g.permissions = "full" THEN 0
         ELSE IF g.permissions = "read_only" /\ required = "read_only" THEN 0
         ELSE 403

\* require_permissions(required_permissions)
RequirePermissions(us, uid, required) ==
    IF Authenticate(us, uid) # 0 THEN 401
    ELSE LET g == UserContext(us, uid) IN
         IF g.role = "admin" THEN 0
         ELSE IF g.permissions = "full" THEN 0
         ELSE IF g.permissions = "read_only" /\ required = "read_only" THEN 0
         ELSE 403

\* require_admin
RequireAdmin(us, uid) ==
    IF Authenticate(us, uid) # 0 THEN 401
    ELSE IF UserContext(us, uid).role = "admin" THEN 0 ELSE 403

\* require_self_or_admin(user_id_param)
RequireSelfOrAdmin(us, uid, target_user_id) ==
    IF Authenticate(us, uid) # 0 THEN 401
    ELSE LET g == UserContext(us, uid) IN
         IF g.role = "admin" THEN 0
         ELSE IF g.user_id = target_user_id THEN 0
         ELSE 403

\* ======================================================= routes/entry.py
Contents == {"a", "b"}

IsAdmin(us, uid) == UserContext(us, uid).role = "admin"

\* create_entry(): POST /api/entry
CreateEntry(uid, author_id, content) ==
    LET gate == CheckSubscriptionStatus(users, uid) IN
    /\ UNCHANGED <<users, nudges, aux>>
    /\ IF gate # 0
       THEN /\ resp' = Resp("create_entry", gate, "denied", uid, 0)
            /\ UNCHANGED entries
       ELSE IF uid # author_id /\ ~IsAdmin(users, uid)
       THEN /\ resp' = Resp("create_entry", 403, "Permission denied", uid, 0)
            /\ UNCHANGED entries
       ELSE \E id \in (1..MaxEntries) \ DOMAIN entries :
            /\ entries' = entries @@ (id :> [author_id |-> author_id,
                                             content |-> content,
                                             deleted_flag |-> FALSE])
            /\ resp' = Resp("create_entry", 201, "created", uid, id)

\* get_entries(): GET /api/entry
GetEntries(uid, user_id) ==
    LET gate == Authenticate(users, uid) IN
    /\ UNCHANGED <<users, entries, nudges, aux>>
    /\ IF gate # 0
       THEN resp' = Resp("get_entries", gate, "denied", uid, 0)
       ELSE IF uid # user_id /\ ~IsAdmin(users, uid)
       THEN resp' = Resp("get_entries", 403, "Permission denied", uid, 0)
       ELSE resp' = Resp("get_entries", 200, "entries", uid, 0)

\* update_entry(entry_id): PATCH /api/entry/<entry_id>
UpdateEntry(uid, entry_id, content) ==
    LET gate == CheckSubscriptionStatus(users, uid) IN
    /\ UNCHANGED <<users, nudges, aux>>
    /\ IF gate # 0
       THEN /\ resp' = Resp("update_entry", gate, "denied", uid, entry_id)
            /\ UNCHANGED entries
       ELSE IF entry_id \notin DOMAIN entries
       THEN /\ resp' = Resp("update_entry", 404, "Entry not found", uid, entry_id)
            /\ UNCHANGED entries
       ELSE IF uid # entries[entry_id].author_id /\ ~IsAdmin(users, uid)
       THEN /\ resp' = Resp("update_entry", 403, "Permission denied", uid, entry_id)
            /\ UNCHANGED entries
       ELSE IF entries[entry_id].deleted_flag
       THEN /\ resp' = Resp("update_entry", 404, "Entry not found", uid, entry_id)
            /\ UNCHANGED entries
       ELSE /\ entries' = [entries EXCEPT ![entry_id].content = content]
            /\ resp' = Resp("update_entry", 200, "updated", uid, entry_id)

\* delete_entry(entry_id): DELETE /api/entry/<entry_id>
DeleteEntry(uid, entry_id) ==
    LET gate == CheckSubscriptionStatus(users, uid) IN
    /\ UNCHANGED <<users, nudges, aux>>
    /\ IF gate # 0
       THEN /\ resp' = Resp("delete_entry", gate, "denied", uid, entry_id)
            /\ UNCHANGED entries
       ELSE IF entry_id \notin DOMAIN entries
       THEN /\ resp' = Resp("delete_entry", 404, "Entry not found", uid, entry_id)
            /\ UNCHANGED entries
       ELSE IF uid # entries[entry_id].author_id /\ ~IsAdmin(users, uid)
       THEN /\ resp' = Resp("delete_entry", 403, "Permission denied", uid, entry_id)
            /\ UNCHANGED entries
       ELSE /\ entries' = [entries EXCEPT ![entry_id].deleted_flag = TRUE]
            /\ resp' = Resp("delete_entry", 200, "deleted", uid, entry_id)

\* generate_tags(): POST /api/entry/generate-tags
GenerateTags(uid) ==
    LET gate == CheckSubscriptionStatus(users, uid) IN
    /\ UNCHANGED <<users, entries, nudges, aux>>
    /\ IF gate # 0
       THEN resp' = Resp("generate_tags", gate, "denied", uid, 0)
       ELSE resp' = Resp("generate_tags", 200, "tags", uid, 0)

\* test_openai(): GET /api/entry/test-openai, behind require_permissions('full')
TestOpenai(uid) ==
    LET gate == RequirePermissions(users, uid, "full") IN
    /\ UNCHANGED <<users, entries, nudges, aux>>
    /\ IF gate # 0
       THEN resp' = Resp("test_openai", gate, "denied", uid, 0)
       ELSE resp' = Resp("test_openai", 200, "ok", uid, 0)

\* ======================================================= routes/nudge.py
Repeats == {"none", "daily", "weekly", "monthly"}

\* create_nudge(): POST /api/nudge
CreateNudge(uid, user_id, schedule_time, repeat, active) ==
    LET gate == CheckSubscriptionStatus(users, uid) IN
    /\ UNCHANGED <<users, entries, aux>>
    /\ IF gate # 0
       THEN /\ resp' = Resp("create_nudge", gate, "denied", uid, 0)
            /\ UNCHANGED nudges
       ELSE \E id \in (1..MaxNudges) \ DOMAIN nudges :
            /\ nudges' = nudges @@ (id :> [user_id |-> user_id,
                                           schedule_time |-> schedule_time,
                                           repeat |-> repeat,
                                           active |-> active,
                                           last_sent |-> NoTime,
                                           next_send |-> schedule_time])
            /\ resp' = Resp("create_nudge", 201, "created", uid, id)

\* get_nudges(): GET /api/nudge
GetNudges(uid, user_id) ==
    LET gate == Authenticate(users, uid) IN
    /\ UNCHANGED <<users, entries, nudges, aux>>
    /\ IF gate # 0
       THEN resp' = Resp("get_nudges", gate, "denied", uid, 0)
       ELSE resp' = Resp("get_nudges", 200, "nudges", uid, 0)

\* the update_data update_nudge builds from the request body; data.has
\* holds the keys the body gives
NudgeUpdateData(existing, data) ==
    [k \in data.has
          \cup (IF "schedule_time" \in data.has
                   /\ existing.next_send = existing.schedule_time
                THEN {"next_send"} ELSE {})
       |-> IF k = "next_send" THEN data.schedule_time ELSE data[k]]

\* update_nudge(nudge_id): PATCH /api/nudge/<nudge_id>
UpdateNudge(uid, nudge_id, data) ==
    LET gate == CheckSubscriptionStatus(users, uid) IN
    /\ UNCHANGED <<users, entries, aux>>
    /\ IF gate # 0
       THEN /\ resp' = Resp("update_nudge", gate, "denied", uid, nudge_id)
            /\ UNCHANGED nudges
       ELSE IF nudge_id \notin DOMAIN nudges
       THEN /\ resp' = Resp("update_nudge", 404, "Nudge not found", uid, nudge_id)
            /\ UNCHANGED nudges
       ELSE /\ nudges' = [nudges EXCEPT ![nudge_id] =
                              Update(@, NudgeUpdateData(@, data))]
            /\ resp' = Resp("update_nudge", 200, "updated", uid, nudge_id)

\* delete_nudge(nudge_id): DELETE /api/nudge/<nudge_id>
DeleteNudge(uid, nudge_id) ==
    LET gate == CheckSubscriptionStatus(users, uid) IN
    /\ UNCHANGED <<users, entries, aux>>
    /\ IF gate # 0
       THEN /\ resp' = Resp("delete_nudge", gate, "denied", uid, nudge_id)
            /\ UNCHANGED nudges
       ELSE IF nudge_id \notin DOMAIN nudges
       THEN /\ resp' = Resp("delete_nudge", 404, "Nudge not found", uid, nudge_id)
            /\ UNCHANGED nudges
       ELSE /\ nudges' = [n \in DOMAIN nudges \ {nudge_id} |-> nudges[n]]
            /\ resp' = Resp("delete_nudge", 200, "deleted", uid, nudge_id)

\* ------------------------------------------- process_nudges: next_send
\* repeat == "daily" without the timedelta: today at the time of day
DailyNext_Today(schedule_time, t) == ReplaceTod(t, schedule_time)

\* repeat == "daily": tomorrow at the time of day of schedule_time
DailyNext(schedule_time, t) == ReplaceTod(AddDays(t, 1), schedule_time)

\* repeat == "weekly" without the replace(): a week from now, at now's time
WeeklyNext_KeepTime(schedule_time, t) == AddDays(t, 7)

\* repeat == "weekly": a week from now at the time of day of schedule_time
WeeklyNext(schedule_time, t) == ReplaceTod(AddDays(t, 7), schedule_time)

\* the except ValueError branch with every year divisible by 4 a leap year
MonthlyLastDay_NoCentury(next_year, next_month) ==
    IF next_month = 2
    THEN (IF next_year % 4 = 0 THEN 29 ELSE 28)
    ELSE IF next_month \in {4, 6, 9, 11} THEN 30 ELSE 31

\* the except ValueError branch: the last day of next month
MonthlyLastDay(next_year, next_month) ==
    IF next_month = 2
    THEN (IF next_year % 4 = 0 /\ (next_year % 100 # 0 \/ next_year % 400 = 0)
          THEN 29 ELSE 28)
    ELSE IF next_month \in {4, 6, 9, 11} THEN 30 ELSE 31

\* repeat == "monthly": the day of schedule_time in the month after now's,
\* or the last day of that month when datetime() refuses the day
MonthlyNext(schedule_time, t) ==
    LET current_month == MonthOf(t)
        next_month == IF current_month < 12 THEN current_month + 1 ELSE 1
        next_year == IF current_month = 12 THEN YearOf(t) + 1 ELSE YearOf(t) IN
    IF ValidDate(next_year, next_month, DayOf(schedule_time))
    THEN Stamp(next_year, next_month, DayOf(schedule_time), TodOf(schedule_time))
    ELSE Stamp(next_year, next_month, MonthlyLastDay(next_year, next_month),
               TodOf(schedule_time))

\* the next_send process_nudges computes for a repeating nudge
NextSend(repeat, schedule_time, t) ==
    IF repeat = "daily" THEN DailyNext(schedule_time, t)
    ELSE IF repeat = "weekly" THEN WeeklyNext(schedule_time, t)
    ELSE MonthlyNext(schedule_time, t)

\* ------------------------------------------------- process_nudges
\* the query: where("active", "==", True).where("next_send", "<=", now)
IsDue(doc, t) == doc.active /\ doc.next_send <= t

\* the nudges the loop passes over: no user document, or no phone number
Skipped(us, doc) ==
    \/ ~Exists(us, doc.user_id)
    \/ Get(us[doc.user_id], "phone_number", NoneVal) = NoneVal

\* the update that leaves a one-shot nudge active
ScanUpdate_KeepActive(doc, t) ==
    IF doc.repeat = "none"
    THEN [last_sent |-> t]
    ELSE [last_sent |-> t, next_send |-> NextSend(doc.repeat, doc.schedule_time, t)]

\* the fields process_nudges writes to a due nudge, before it sends
ScanUpdate(doc, t) ==
    IF doc.repeat = "none"
    THEN [active |-> FALSE, last_sent |-> t]
    ELSE [last_sent |-> t, next_send |-> NextSend(doc.repeat, doc.schedule_time, t)]

\* the dispatch history after send_sms delivered the occurrence of doc
Delivered(h, doc) == [due |-> doc.next_send, twice |-> h.twice \/ h.due = doc.next_send]

\* the documents of the query result the loop gets to: each iteration has
\* its own try/except, so the loop stops only at the end of the result
Reached_UntilError(due, failing) == {n \in due : \A k \in failing : k >= n}

\* the documents of the query result the loop gets to: all of them
Reached(due, failing) == due

\* the response of a run that got to the end of the loop
ScanResp(uid, dry_run, processed_count, sent_count, errors) ==
    Resp("process_nudges", 200, "completed", uid, IF dry_run THEN 0 ELSE sent_count)
        @@ [processed_count |-> processed_count, dry_run |-> dry_run,
            errors |-> errors]

\* process_nudges(): POST /api/nudge/process.  ok[n] is whether send_sms
\* reports success for nudge n; raises is the set of nudges for which a
\* call of the loop body raises before the update is written (the read of
\* the user document, fromisoformat, datetime(), the update itself).
ProcessNudgesWith(uid, dry_run, ok, raises) ==
    LET gate == RequireAdmin(users, uid)
        due == {n \in DOMAIN nudges : IsDue(nudges[n], now)}
        skipped == {n \in due : Skipped(users, nudges[n])}
        raised == (due \ skipped) \cap raises
        reached == Reached(due, skipped \cup raised)
        processed == reached \ (skipped \cup raised)
        success == IF dry_run THEN {} ELSE {n \in processed : ok[n]}
        failed == IF dry_run THEN {} ELSE processed \ success IN
    /\ UNCHANGED <<users, entries, delivered, pend, base, now, scans, calc, onboard>>
    /\ IF gate # 0
       THEN /\ resp' = Resp("process_nudges", gate, "denied", uid, 0)
            /\ UNCHANGED <<nudges, sent, onboard>>
       ELSE /\ nudges' = [n \in DOMAIN nudges |->
                            IF n \in processed
                            THEN Update(nudges[n], ScanUpdate(nudges[n], now))
                            ELSE nudges[n]]
            /\ sent' = [n \in DOMAIN sent |->
                          IF n \in success THEN Delivered(sent[n], nudges[n])
                          ELSE sent[n]]
            /\ resp' = ScanResp(uid, dry_run, Cardinality(processed),
                                Cardinality(success),
                                (reached \cap (skipped \cup raised)) \cup failed)

\* a run in which nothing raises
ProcessNudges(uid, dry_run, ok) == ProcessNudgesWith(uid, dry_run, ok, {})

\* time passes until the next request
TickTo(times) ==
    /\ \E t \in times :
          /\ t > now
          /\ now' = t
    /\ UNCHANGED <<users, entries, nudges, resp, delivered, pend, base, sent, scans, calc, onboard>>

Tick == TickTo(Clock)

\* ---------------------------------------------------------------------
\* The billing operations, each one whole request.
Billing ==
    \/ \E ev \in Events : Webhook(ev)
    \/ \E u \in UserIds, c \in CustomerIds, ok \in BOOLEAN : CreateCustomer(u, c, ok)
    \/ \E c \in CustomerIds, s \in SubscriptionIds, d \in {0, TrialDaysDefault},
          ok \in BOOLEAN : CreateSubscription(c, s, d, ok)
    \/ \E s \in SubscriptionIds, ok \in BOOLEAN : ClientCancel(s, ok)
    \/ \E u \in UserIds, st \in StripeStatuses \cup {NoneVal}, s \in SubscriptionIds,
          ok \in BOOLEAN : SyncSubscriptionStatus(u, st, s, ok)
    \/ \E u \in UserIds : SetupSubscription(u)
    \/ \E u \in UserIds : RouteCancel(u)
    \/ \E u \in UserIds, st \in AdminStatuses : AdminUpdateUser(u, st)

Next == Billing

Spec == Init /\ [][Next]_vars

\* A nudge request names a repeat of GateRepeats
GateRepeats == {"none", "daily"}

\* The bodies of the update_nudge requests: the keys given, and their values
NudgeBodies ==
    {d \in [has : SUBSET {"schedule_time", "repeat", "active"},
            schedule_time : 1..MaxTime,
            repeat : GateRepeats,
            active : BOOLEAN] :
        /\ d.has # {}
        /\ "schedule_time" \notin d.has => d.schedule_time = 1
        /\ "repeat" \notin d.has => d.repeat = "none"
        /\ "active" \notin d.has => d.active = TRUE}

\* The gated routes
Gated ==
    \/ \E u \in UserIds, a \in UserIds, c \in Contents : CreateEntry(u, a, c)
    \/ \E u \in UserIds, t \in UserIds : GetEntries(u, t)
    \/ \E u \in UserIds, e \in 1..MaxEntries, c \in Contents : UpdateEntry(u, e, c)
    \/ \E u \in UserIds, e \in 1..MaxEntries : DeleteEntry(u, e)
    \/ \E u \in UserIds : GenerateTags(u)
    \/ \E u \in UserIds : TestOpenai(u)
    \/ \E u \in UserIds, st \in 1..MaxTime, r \in GateRepeats, a \in BOOLEAN :
          CreateNudge(u, u, st, r, a)
    \/ \E u \in UserIds, t \in UserIds : GetNudges(u, t)
    \/ \E u \in UserIds, n \in 1..MaxNudges, d \in NudgeBodies : UpdateNudge(u, n, d)
    \/ \E u \in UserIds, n \in 1..MaxNudges : DeleteNudge(u, n)

\* The billing operations that move a user between the statuses the gates
\* read, for the one Stripe customer and subscription of the user.
GateEvents == {ev \in Events : ev.customer = "cus_1" /\ ev.subscription = "sub_1"}

GateBilling ==
    \/ \E ev \in GateEvents : Webhook(ev)
    \/ \E u \in UserIds : CreateCustomer(u, "cus_1", TRUE)
    \/ CreateSubscription("cus_1", "sub_1", TrialDaysDefault, TRUE)
    \/ ClientCancel("sub_1", TRUE)

GateNext == GateBilling \/ Gated

GateSpec == Init /\ [][GateNext]_vars

\* ---------------------------------------------------------------------
\* Stripe delivers at least once: an event already handled may arrive again.
\* The events of the user's customer and subscription
ReplayEvents == GateEvents

\* the first delivery of an event; Stripe takes a 2xx response for the
\* delivery and sends the event again after any other
Deliver(ev) ==
    /\ ev \notin delivered
    /\ HandleEvent(ev)
    /\ delivered' = IF WebhookResult(users, ev).code = 200
                    THEN delivered \cup {ev}
                    ELSE delivered
    /\ UNCHANGED <<pend, base, sched>>

\* a later delivery of the same event: webhook() runs the handler again
Redeliver(ev) ==
    /\ ev \in delivered
    /\ HandleEvent(ev)
    /\ UNCHANGED aux

ReplayNext ==
    \/ \E ev \in ReplayEvents : Deliver(ev)
    \/ \E ev \in ReplayEvents : Redeliver(ev)
    \/ \E u \in UserIds : CreateCustomer(u, "cus_1", TRUE)
    \/ CreateSubscription("cus_1", "sub_1", TrialDaysDefault, TRUE)

ReplaySpec == Init /\ [][ReplayNext]_vars

\* ---------------------------------------------------------------------
\* Two workers handle requests for the same user at the same time.  A
\* handler is a query or a read of the user document, then one update of
\* it; Firestore makes each of the two atomic and nothing joins them.
Request(op, ev, user_id, status) ==
    [Idle EXCEPT !.op = op, !.ev = ev, !.user_id = user_id, !.status = status,
                 !.phase = "start"]

\* the subscription Stripe opens when the customer subscribes again
NewSubscriptionId == "sub_2"

\* the events the concurrent webhooks carry: those of the user's
\* subscription, and the first payment of a new subscription
ConcEvents ==
    {ev \in GateEvents : /\ ev.type # "customer.updated"
                          /\ ev.attempt_count \in {1, FinalAttempt}}
    \cup {[type |-> "invoice.payment_succeeded", customer |-> "cus_1",
            subscription |-> NewSubscriptionId, attempt_count |-> 1]}

\* the requests that write the billing fields of a user
ConcRequests ==
    {Request("webhook", ev, "none", "none") : ev \in ConcEvents}
    \cup {Request("client_cancel", [Idle.ev EXCEPT !.subscription = "sub_1"],
                   "none", "none")}
    \cup {Request("route_cancel", Idle.ev, "u1", "none")}
    \cup {Request("sync", [Idle.ev EXCEPT !.subscription = "sub_1"], "u1", st) :
             st \in {"active", "canceled"}}
    \cup {Request("admin_update_user", Idle.ev, "u1", st) :
             st \in {"active", "cancelled"}}

\* the whole handler of a request
RequestResult(us, r) ==
    IF r.op = "webhook" THEN WebhookResult(us, r.ev)
    ELSE IF r.op = "client_cancel" THEN ClientCancelResult(us, r.ev.subscription, TRUE)
    ELSE IF r.op = "route_cancel" THEN RouteCancelResult(us, r.user_id)
    ELSE IF r.op = "sync" THEN SyncResult(us, r.user_id, r.status, r.ev.subscription, TRUE)
    ELSE AdminUpdateResult(us, r.user_id, r.status)

\* the fields the handler of a request writes
RequestUpdate(r) ==
    IF r.op = "webhook"
    THEN IF r.ev.type = "customer.subscription.trial_will_end"
         THEN TrialEndingUpdate(r.ev.subscription)
         ELSE IF r.ev.type = "invoice.payment_succeeded"
         THEN PaymentSucceededUpdate(r.ev.subscription)
         ELSE FailedUpdate(r.ev.subscription, r.ev.attempt_count)
    ELSE IF r.op = "client_cancel" THEN ClientCancelUpdate
    ELSE IF r.op = "route_cancel" THEN RouteCancelUpdate
    ELSE IF r.op = "sync" THEN SyncUpdate(r.status, r.ev.subscription)
    ELSE AdminUpdateData(r.status)

AllIdle == \A w \in Workers : pend[w].phase = "idle"
AllDone == \A w \in Workers : pend[w].phase = "done"

\* two requests arrive together
Arrive(r1, r2) ==
    /\ AllIdle
    /\ pend' = [w \in Workers |-> IF w = 1 THEN r1 ELSE r2]
    /\ base' = users
    /\ UNCHANGED <<users, entries, nudges, resp, delivered, sched>>

\* a worker runs its handler up to the update: the query or the read, and
\* the early return when it finds nothing to update
Lookup(w) ==
    LET r == RequestResult(users, pend[w]) IN
    /\ pend[w].phase = "start"
    /\ pend' = [pend EXCEPT ![w].target = r.user,
                            ![w].phase = IF r.user = "none" THEN "done" ELSE "read"]
    /\ resp' = IF r.user = "none"
               THEN Resp(pend[w].op, r.code, r.outcome, r.user, 0)
               ELSE resp
    /\ UNCHANGED <<users, entries, nudges, delivered, base, sched>>

\* the worker's update of the document it found, and its response
Store(w) ==
    /\ pend[w].phase = "read"
    /\ users' = UpdateUser(users, pend[w].target, RequestUpdate(pend[w]))
    /\ pend' = [pend EXCEPT ![w].phase = "done"]
    /\ resp' = Resp(pend[w].op, 200, "success", pend[w].target, 0)
    /\ UNCHANGED <<entries, nudges, delivered, base, sched>>

\* both responses are out
Finish ==
    /\ AllDone
    /\ pend' = [w \in Workers |-> Idle]
    /\ base' = users
    /\ UNCHANGED <<users, entries, nudges, resp, delivered, sched>>

\* the requests that give the user a customer and a subscription
ConcSetup ==
    /\ AllIdle
    /\ \/ \E u \in UserIds : CreateCustomer(u, "cus_1", TRUE)
       \/ CreateSubscription("cus_1", "sub_1", TrialDaysDefault, TRUE)

ConcNext ==
    \/ \E r1 \in ConcRequests, r2 \in ConcRequests : Arrive(r1, r2)
    \/ \E w \in Workers : Lookup(w)
    \/ \E w \in Workers : Store(w)
    \/ Finish
    \/ ConcSetup

ConcSpec == Init /\ [][ConcNext]_vars

\* =====================================================================
\* Properties
\* =====================================================================
\* The status get_user_permissions reports for a stored user
StatusOf(us, u) == Get(us[u], "subscription_status", "none")

\* the users who are not admins
NonAdmin(us, u) == u \in DOMAIN us /\ us[u].role # "admin"

\* C1: replay idempotence of billing events.  Delivering again an event
\* that was already delivered leaves the user record as it was after the
\* deliveries so far (subscription_status, permissions, trial_end and every
\* other field), and writes nothing to the store.
C1_ReplayLeavesRecord ==
    [][\A ev \in ReplayEvents : Redeliver(ev) => users' = users]_vars

\* C2: per-user serialization of concurrent billing events.  When two
\* requests that write the billing fields of the same user were handled at
\* the same time, the record they leave is the record that handling them
\* one after the other, in one of the two orders, leaves.
C2_SerialOutcome ==
    AllDone =>
        users \in {RequestResult(RequestResult(base, pend[1]).users, pend[2]).users,
                   RequestResult(RequestResult(base, pend[2]).users, pend[1]).users}

\* the operations of the routes behind check_subscription_status
GatedWriteOps ==
    {"create_entry", "update_entry", "delete_entry", "generate_tags",
     "create_nudge", "update_nudge", "delete_nudge"}

\* the last step was a payment-failed event that found user u
FailedStep(u) ==
    /\ resp'.op = "invoice.payment_failed"
    /\ resp'.outcome = "success"
    /\ resp'.user = u

\* the last step was a gated write request of user u
GatedWriteStep(u) == resp'.op \in GatedWriteOps /\ resp'.user = u

\* C3: final payment failure.  A payment-failed event with attempt_count
\* of 3 or more applied to an active user stores 'payment_failed_final',
\* one with a smaller attempt_count stores 'payment_failed'; and every
\* request of a non-admin user in status 'payment_failed_final' to a route
\* behind check_subscription_status is denied with 402 and changes nothing.
C3_FinalFailure ==
    [][\A u \in DOMAIN users :
          /\ (FailedStep(u) /\ StatusOf(users, u) = "active")
                => StatusOf(users', u) = IF resp'.arg >= 3
                                         THEN "payment_failed_final"
                                         ELSE "payment_failed"
          /\ (GatedWriteStep(u) /\ NonAdmin(users, u)
                /\ StatusOf(users, u) = "payment_failed_final")
                => /\ resp'.code = 402
                   /\ UNCHANGED <<users, entries, nudges>>]_vars

\* an active non-admin user has just had the third failed payment, and the
\* gate now refuses the user
C3_Witness ==
    /\ resp.op = "invoice.payment_failed"
    /\ resp.outcome = "success"
    /\ resp.before = "active"
    /\ resp.arg >= 3
    /\ NonAdmin(users, resp.user)
    /\ StatusOf(users, resp.user) = "payment_failed_final"
    /\ CheckSubscriptionStatus(users, resp.user) = 402

\* C4: grace period.  A non-admin user in status 'payment_failed' (a
\* failed payment with attempt_count below 3) keeps write access: the
\* routes behind check_subscription_status do not answer 402.
C4_GraceKeepsWrite ==
    \A u \in DOMAIN users :
        (NonAdmin(users, u) /\ StatusOf(users, u) = "payment_failed")
            => /\ CheckSubscriptionStatus(users, u) = 0
               /\ (resp.op \in GatedWriteOps /\ resp.user = u) => resp.code # 402

\* the last step started a subscription for user u
StartStep(u) ==
    /\ resp'.op \in {"create_subscription", "setup_subscription"}
    /\ resp'.outcome = "success"
    /\ resp'.user = u

\* C5: starting a subscription with a trial.  Starting a subscription
\* with trial_days > 0 for a user in status none or cancelled stores
\* 'trialing' and a trial_end, check_subscription_status lets the user
\* write, and the stored permissions are 'full'.
C5_TrialStart ==
    [][\A u \in DOMAIN users :
          (StartStep(u) /\ resp'.arg > 0
             /\ StatusOf(users, u) \in {"none", "cancelled"})
            => /\ StatusOf(users', u) = "trialing"
               /\ users'[u].trial_end \notin {Absent, NoneVal}
               /\ CheckSubscriptionStatus(users', u) = 0
               /\ users'[u].permissions = "full"]_vars

\* the last step was a payment-succeeded event that found user u
SucceededStep(u) ==
    /\ resp'.op = "invoice.payment_succeeded"
    /\ resp'.outcome = "success"
    /\ resp'.user = u

\* C6: payment success restores full access.  A payment-succeeded event
\* applied in status trialing, trial_ending, active, payment_failed or
\* payment_failed_final stores 'active' and clears trial_end, and then
\* both check_subscription_status and require_permissions('full') let the
\* user through.
C6_SuccessRestores ==
    [][\A u \in DOMAIN users :
          (SucceededStep(u)
             /\ StatusOf(users, u) \in {"trialing", "trial_ending", "active",
                                        "payment_failed", "payment_failed_final"})
            => /\ StatusOf(users', u) = "active"
               /\ users'[u].trial_end \in {Absent, NoneVal}
               /\ CheckSubscriptionStatus(users', u) = 0
               /\ RequirePermissions(users', u, "full") = 0]_vars

\* the last step was one of the three handled webhook events for user u
EventStep(u) ==
    /\ resp'.op \in {"customer.subscription.trial_will_end",
                      "invoice.payment_succeeded", "invoice.payment_failed"}
    /\ resp'.user = u

\* C7: out-of-order events are ignored.  An event that arrives for a user
\* in status cancelled or none leaves subscription_status as it is, and a
\* trial-will-end event changes the status only of a trialing user.
C7_OutOfOrderIgnored ==
    [][\A u \in DOMAIN users :
          /\ (EventStep(u) /\ StatusOf(users, u) \in {"cancelled", "none"})
                => StatusOf(users', u) = StatusOf(users, u)
          /\ (EventStep(u) /\ resp'.op = "customer.subscription.trial_will_end"
                /\ StatusOf(users, u) # "trialing")
                => StatusOf(users', u) = StatusOf(users, u)]_vars

\* C8: trial_ending is informational.  A trial-will-end event applied to
\* a trialing non-admin user does not change what check_subscription_status
\* answers for the user: the writes of a trialing user stay allowed.
C8_TrialEndingKeepsWrite ==
    [][\A u \in DOMAIN users :
          (EventStep(u) /\ resp'.op = "customer.subscription.trial_will_end"
             /\ NonAdmin(users, u) /\ StatusOf(users, u) = "trialing")
            => CheckSubscriptionStatus(users', u) = CheckSubscriptionStatus(users, u)]_vars

\* the statuses in which the account is read-only
ReadOnlyStatuses == {"payment_failed_final", "cancelled", "none"}

\* C9: read-only statuses block writes.  For a non-admin user whose status
\* is payment_failed_final, cancelled or none, every request to a route
\* behind check_subscription_status (entry create, update, delete, tag
\* generation, nudge create, update, delete) is answered 402 and leaves
\* the store as it was, while reading the user's entries and nudges is
\* still answered 200.
C9_ReadOnlyBlocksWrites ==
    [][\A u \in DOMAIN users :
          (NonAdmin(users, u) /\ StatusOf(users, u) \in ReadOnlyStatuses)
            => /\ GatedWriteStep(u)
                    => /\ resp'.code = 402
                       /\ UNCHANGED <<users, entries, nudges>>
               /\ (GetEntries(u, u) \/ \E t \in UserIds : GetNudges(u, t))
                    => resp'.code = 200]_vars

\* a cancelled non-admin user, who wrote an entry before, has just been
\* refused the deletion of it
C9_Witness ==
    /\ resp.op = "delete_entry"
    /\ resp.code = 402
    /\ NonAdmin(users, resp.user)
    /\ StatusOf(users, resp.user) = "cancelled"
    /\ resp.arg \in DOMAIN entries
    /\ ~entries[resp.arg].deleted_flag

\* C10: admin bypass.  A user whose role is admin passes
\* check_subscription_status, require_permissions, require_admin and
\* require_self_or_admin whatever subscription_status and permissions the
\* user document stores, and no route refuses the admin's request.
C10_AdminBypass ==
    \A u \in DOMAIN users :
        users[u].role = "admin"
          => /\ CheckSubscriptionStatus(users, u) = 0
             /\ \A p \in {"full", "read_only"} : RequirePermissions(users, u, p) = 0
             /\ RequireAdmin(users, u) = 0
             /\ \A t \in UserIds : RequireSelfOrAdmin(users, u, t) = 0
             /\ resp.user = u => resp.code \notin {401, 402, 403}

\* an admin whose document says payment_failed_final and read_only has
\* just been served the route behind require_permissions('full')
C10_Witness ==
    /\ resp.op = "test_openai"
    /\ resp.code = 200
    /\ resp.user \in DOMAIN users
    /\ users[resp.user].role = "admin"
    /\ users[resp.user].subscription_status = "payment_failed_final"
    /\ users[resp.user].permissions = "read_only"

\* ---------------------------------------------------------------------
\* The requests that write both subscription_status and permissions, or
\* the status alone: every billing request but setup_subscription.
EntitlementNext ==
    \/ \E ev \in Events : Webhook(ev)
    \/ \E u \in UserIds, c \in CustomerIds, ok \in BOOLEAN : CreateCustomer(u, c, ok)
    \/ \E c \in CustomerIds, s \in SubscriptionIds, d \in {0, TrialDaysDefault},
          ok \in BOOLEAN : CreateSubscription(c, s, d, ok)
    \/ \E s \in SubscriptionIds, ok \in BOOLEAN : ClientCancel(s, ok)
    \/ \E u \in UserIds, st \in StripeStatuses \cup {NoneVal}, s \in SubscriptionIds,
          ok \in BOOLEAN : SyncSubscriptionStatus(u, st, s, ok)
    \/ \E u \in UserIds : RouteCancel(u)
    \/ \E u \in UserIds, st \in AdminStatuses : AdminUpdateUser(u, st)

EntitlementSpec == Init /\ [][EntitlementNext]_vars

\* the statuses for which check_subscription_status lets a user write
WriteStatuses == {"active", "trialing"}

\* C11: capabilities are a function of the status.  In every state reached
\* by create_customer, create_subscription, cancel_subscription,
\* sync_subscription_status, webhook events and admin update_user, the
\* permissions of a user are 'full' exactly when subscription_status is
\* active or trialing and 'read_only' otherwise, so require_permissions
\* and check_subscription_status agree about the user.
C11_PermissionsFollowStatus ==
    \A u \in DOMAIN users :
        /\ UserContext(users, u).permissions =
              (IF StatusOf(users, u) \in WriteStatuses THEN "full" ELSE "read_only")
        /\ (CheckSubscriptionStatus(users, u) = 0)
              <=> (RequirePermissions(users, u, "full") = 0)

\* C12: trial invariant.  In every state a user whose status is trialing
\* has a trial_end that is set, whichever operation stored the status.
C12_TrialingHasTrialEnd ==
    \A u \in DOMAIN users :
        StatusOf(users, u) = "trialing" => users[u].trial_end \notin {Absent, NoneVal}

\* the last step cancelled the subscription of user u
CancelStep(u) ==
    /\ resp'.op \in {"client_cancel", "route_cancel"}
    /\ resp'.outcome = "success"
    /\ resp'.user = u

\* the record holds neither a subscription id nor a trial_end
NoLiveSubscription(doc) ==
    /\ doc.subscription_id \in {Absent, NoneVal}
    /\ doc.trial_end \in {Absent, NoneVal}

\* C13: cancelling clears the subscription.  Cancelling from any status
\* but none stores 'cancelled' and clears the subscription id and
\* trial_end, and every record with status cancelled holds neither.
C13_CancelClears ==
    [][\A u \in DOMAIN users :
          /\ (CancelStep(u) /\ StatusOf(users, u) # "none")
                => /\ StatusOf(users', u) = "cancelled"
                   /\ NoLiveSubscription(users'[u])
          /\ StatusOf(users', u) = "cancelled" => NoLiveSubscription(users'[u])]_vars

\* ---------------------------------------------------------------------
\* The monthly recurrence on its own: an anchor schedule_time and a
\* reference time (datetime.now() of the scan), then the computation.
CalcYears == {2023, 2024, 2099, 2100}

CalcAnchors == {Stamp(2024, 1, d, tod) : d \in 1..31, tod \in 0..(SlotsPerDay - 1)}

CalcReferences ==
    {Stamp(y, m, d, tod) : y \in CalcYears, m \in 1..12, d \in {1, 28},
                           tod \in 0..(SlotsPerDay - 1)}

CalcInit ==
    /\ InitStore
    /\ InitSched
    /\ \E a \in CalcAnchors, r \in CalcReferences :
          calc = [NoCalc EXCEPT !.anchor = a, !.reference = r]

ComputeMonthly ==
    /\ ~calc.done
    /\ calc' = [calc EXCEPT !.result = MonthlyNext(calc.anchor, calc.reference),
                            !.done = TRUE]
    /\ UNCHANGED <<users, entries, nudges, resp, delivered, pend, base, now, sent, scans, onboard>>

CalcNext == ComputeMonthly

CalcSpec == CalcInit /\ [][CalcNext]_vars

\* the days of the months of the Gregorian calendar
GregorianDays(y, m) ==
    IF m = 2 /\ (y % 400 = 0 \/ (y % 4 = 0 /\ y % 100 # 0))
    THEN 29
    ELSE <<31, 28, 31, 30, 31, 30, 31, 31, 30, 31, 30, 31>>[m]

\* C20: monthly recurrence with clamping.  For every anchor schedule_time
\* and every reference time the next monthly occurrence lies in the month
\* after the reference's month (December rolls to January of the next
\* year), on the anchor's day of month or, if that month is shorter, on
\* its last day under the Gregorian leap-year rule, at the anchor's time
\* of day.
C20_MonthlyClamped ==
    calc.done =>
        LET ry == YearOf(calc.reference)
            rm == MonthOf(calc.reference)
            ty == IF rm = 12 THEN ry + 1 ELSE ry
            tm == IF rm = 12 THEN 1 ELSE rm + 1
            last == GregorianDays(ty, tm)
            ad == DayOf(calc.anchor) IN
        /\ YearOf(calc.result) = ty
        /\ MonthOf(calc.result) = tm
        /\ DayOf(calc.result) = (IF ad < last THEN ad ELSE last)
        /\ TodOf(calc.result) = TodOf(calc.anchor)

\* the 31st, asked for February of 2100, which is no leap year
C20_Witness ==
    /\ calc.done
    /\ DayOf(calc.anchor) = 31
    /\ YearOf(calc.reference) = 2100
    /\ MonthOf(calc.reference) = 1
    /\ DayOf(calc.result) = 28
    /\ MonthOf(calc.result) = 2

\* ---------------------------------------------------------------------
\* The scheduler calls process_nudges as the admin u2 while time passes;
\* u1 owns the nudges, and an admin request changes u1's subscription.
ScanInit ==
    /\ users = [u \in UserIds |-> NewUser(IF u = "u1" THEN "parent" ELSE "admin")]
    /\ entries = <<>>
    /\ nudges = <<>>
    /\ resp = Resp("init", 0, "none", "none", 0)
    /\ delivered = {}
    /\ pend = [w \in Workers |-> Idle]
    /\ base = users
    /\ InitSched
    /\ calc = NoCalc

\* the schedule_time of the nudge requests: the 30th, the 31st
ScanSchedules == {ClockStart + 1, ReplaceTod(NextDay(ClockStart), 0)}

ScanNext ==
    \/ \E st \in ScanSchedules, r \in Repeats : CreateNudge("u2", "u1", st, r, TRUE)
    \/ \E u \in UserIds, dry_run \in BOOLEAN, ok \in [1..MaxNudges -> BOOLEAN] :
          ProcessNudges(u, dry_run, ok)
    \/ Tick
    \/ AdminUpdateUser("u1", "cancelled")

ScanSpec == ScanInit /\ [][ScanNext]_vars

\* a run of process_nudges that got past require_admin
ScanStep(dry, outcome) ==
    \E u \in UserIds : RequireAdmin(users, u) = 0 /\ ProcessNudges(u, dry, outcome)

\* the outcomes send_sms may report for the nudges
SendOutcomes == [1..MaxNudges -> BOOLEAN]

\* the nudges the loop of a run updates and sends
Processed(n) ==
    n \in DOMAIN nudges /\ IsDue(nudges[n], now) /\ ~Skipped(users, nudges[n])

\* C14: one-shot reminders fire once.  Once a run of process_nudges has
\* delivered a nudge with repeat 'none', the nudge is inactive, no later
\* run selects it, and it is never delivered a second time.
C14_OneShotOnce ==
    \A n \in DOMAIN nudges :
        (nudges[n].repeat = "none" /\ sent[n].due # NoTime)
            => /\ ~nudges[n].active
               /\ ~IsDue(nudges[n], now)
               /\ ~sent[n].twice

\* a one-shot nudge was delivered, and a run at a later time has passed
\* over it
C14_Witness ==
    /\ resp.op = "process_nudges"
    /\ resp.code = 200
    /\ resp.arg = 0
    /\ \E n \in DOMAIN nudges :
          /\ nudges[n].repeat = "none"
          /\ sent[n].due = nudges[n].schedule_time
          /\ nudges[n].last_sent # NoTime
          /\ nudges[n].last_sent < now

\* C15: a dispatch failure does not change the reminder.  When send_sms
\* reports failure for a due nudge during a run, the nudge's active,
\* next_send and last_sent are after the run what they were before it,
\* whatever its repeat, and the next run's query selects it again.
C15_FailureKeepsState ==
    [][\A o \in SendOutcomes :
          ScanStep(FALSE, o)
            => \A n \in DOMAIN nudges :
                 (Processed(n) /\ ~o[n])
                   => /\ nudges'[n].active = nudges[n].active
                      /\ nudges'[n].next_send = nudges[n].next_send
                      /\ nudges'[n].last_sent = nudges[n].last_sent
                      /\ IsDue(nudges'[n], now')]_vars

\* C17: the due scan respects entitlements.  A due nudge whose owner is
\* not allowed to write (status none, cancelled or payment_failed_final)
\* is not delivered by process_nudges and its record stays as it is.
C17_ScanRespectsStatus ==
    [][\A d \in BOOLEAN, o \in SendOutcomes :
          ScanStep(d, o)
            => \A n \in DOMAIN nudges :
                 (Processed(n) /\ NonAdmin(users, nudges[n].user_id)
                    /\ StatusOf(users, nudges[n].user_id) \in ReadOnlyStatuses)
                   => /\ nudges'[n] = nudges[n]
                      /\ sent'[n] = sent[n]]_vars

\* C19: once per period for runs one after the other.  A run delivers a
\* nudge only if the nudge was active and its next_send had come; the
\* next_send it stores for a daily, weekly or monthly nudge is later than
\* the time of the run; and no occurrence is delivered twice.
C19_OncePerPeriod ==
    [][\A d \in BOOLEAN, o \in SendOutcomes :
          ScanStep(d, o)
            => \A n \in DOMAIN nudges :
                 sent'[n] # sent[n]
                   => /\ nudges[n].active
                      /\ nudges[n].next_send <= now
                      /\ ~sent'[n].twice
                      /\ nudges[n].repeat # "none" => nudges'[n].next_send > now]_vars

\* a repeating nudge has been delivered for an occurrence after its first
C19_Witness ==
    \E n \in DOMAIN nudges :
        /\ nudges[n].repeat \in {"daily", "weekly", "monthly"}
        /\ sent[n].due > nudges[n].schedule_time
        /\ nudges[n].next_send > now

\* ---------------------------------------------------------------------
\* The scheduler keeps calling process_nudges for real (dry_run false)
\* while send_sms fails or succeeds.
LiveScan == \E o \in SendOutcomes : ProcessNudges("u2", FALSE, o)

\* a run in which send_sms succeeds for every nudge
DeliveringScan == ProcessNudges("u2", FALSE, [n \in 1..MaxNudges |-> TRUE])

LiveScanNext ==
    \/ \E st \in ScanSchedules, r \in Repeats : CreateNudge("u2", "u1", st, r, TRUE)
    \/ LiveScan
    \/ Tick

\* runs keep coming, and a run in which send_sms succeeds is not put off
\* for ever
LiveScanSpec ==
    /\ ScanInit
    /\ [][LiveScanNext]_vars
    /\ WF_vars(Tick)
    /\ WF_vars(LiveScan)
    /\ SF_vars(DeliveringScan)

\* C16: no due occurrence is dropped.  When runs keep coming and send_sms
\* succeeds in the end, every occurrence of an active nudge that has come
\* due is delivered in the end, however many sends failed before.
C16_DueEventuallySent ==
    \A n \in 1..MaxNudges, due \in Clock :
        (Processed(n) /\ nudges[n].next_send = due) ~> (sent[n].due = due)

\* ---------------------------------------------------------------------
\* Two runs of process_nudges at the same time.  A run is its query, then
\* for each document of the result the update and the send, then the
\* response; scans[w] holds the result still to be handled (docs), the
\* point of the loop (phase "loop": at the top; "send": past the update of
\* the first of docs), dry_run and sent_count.

\* query.stream(): the due nudges as they are at the time of the query
QueryStream(t) ==
    SelectSeq([i \in 1..MaxNudges |-> i],
              LAMBDA i : i \in DOMAIN nudges /\ IsDue(nudges[i], t))

\* the decorators, `now`, and the query
ScanQuery(w, uid, dry_run) ==
    LET gate == RequireAdmin(users, uid)
        ids == QueryStream(now) IN
    /\ scans[w].phase = "idle"
    /\ UNCHANGED <<users, entries, nudges, delivered, pend, base, now, sent, calc, onboard>>
    /\ IF gate # 0
       THEN /\ resp' = Resp("process_nudges", gate, "denied", uid, 0)
            /\ UNCHANGED scans
       ELSE /\ scans' = [scans EXCEPT ![w] =
                           [phase |-> "loop",
                            docs |-> [k \in 1..Len(ids) |->
                                        [id |-> ids[k], nudge |-> nudges[ids[k]]]],
                            dry_run |-> dry_run,
                            sent_count |-> 0]]
            /\ UNCHANGED resp

\* the loop body up to the update: the user lookup, and the write of the
\* fields computed from the document the query returned
ScanWrite(w) ==
    LET doc == Head(scans[w].docs) IN
    /\ scans[w].phase = "loop"
    /\ scans[w].docs # <<>>
    /\ UNCHANGED <<users, entries, resp, delivered, pend, base, now, sent, calc, onboard>>
    /\ IF Skipped(users, doc.nudge)
       THEN /\ scans' = [scans EXCEPT ![w].docs = Tail(@)]
            /\ UNCHANGED nudges
       ELSE /\ nudges' = [nudges EXCEPT ![doc.id] =
                            Update(@, ScanUpdate(doc.nudge, now))]
            /\ scans' = [scans EXCEPT ![w].phase = "send"]

\* the rest of the loop body: send_sms unless dry_run, and the counters
ScanSend(w, ok) ==
    LET doc == Head(scans[w].docs)
        success == ~scans[w].dry_run /\ ok IN
    /\ scans[w].phase = "send"
    /\ UNCHANGED <<users, entries, nudges, resp, delivered, pend, base, now, calc, onboard>>
    /\ sent' = IF success
               THEN [sent EXCEPT ![doc.id] = Delivered(@, doc.nudge)]
               ELSE sent
    /\ scans' = [scans EXCEPT ![w] =
                   [@ EXCEPT !.phase = "loop",
                             !.docs = Tail(@),
                             !.sent_count = IF success THEN @ + 1 ELSE @]]

\* the response after the loop
ScanFinish(w) ==
    /\ scans[w].phase = "loop"
    /\ scans[w].docs = <<>>
    /\ UNCHANGED <<users, entries, nudges, delivered, pend, base, now, sent, calc, onboard>>
    /\ resp' = Resp("process_nudges", 200, "completed", "u2", scans[w].sent_count)
    /\ scans' = [scans EXCEPT ![w] = IdleScan]

\* the schedule_time of the nudge requests while runs overlap
ScanConcSchedules == {ClockStart + 1}

\* the repeat of the nudge requests while runs overlap
ScanConcRepeats == {"none", "weekly", "monthly"}

ScanConcNext ==
    \/ \E st \in ScanConcSchedules, r \in ScanConcRepeats : CreateNudge("u2", "u1", st, r, TRUE)
    \/ Tick
    \/ \E w \in Workers, u \in UserIds, dry_run \in BOOLEAN : ScanQuery(w, u, dry_run)
    \/ \E w \in Workers : ScanWrite(w)
    \/ \E w \in Workers, ok \in BOOLEAN : ScanSend(w, ok)
    \/ \E w \in Workers : ScanFinish(w)

ScanConcSpec == ScanInit /\ [][ScanConcNext]_vars

\* C18: no double dispatch under overlapping runs.  However the query,
\* update and send steps of two runs of process_nudges interleave, no
\* occurrence of a nudge is delivered more than once.
C18_NoDoubleDispatch ==
    \A n \in DOMAIN sent : ~sent[n].twice

\* ---------------------------------------------------------------------
\* C21: a monthly nudge anchored on January 31 whose next occurrence is
\* computed on February 1 gets February 28 of that year, or February 29
\* in a leap year, at the anchor's time of day.
C21_JanuaryAnchorInFebruary ==
    (/\ calc.done
     /\ MonthOf(calc.anchor) = 1
     /\ DayOf(calc.anchor) = 31
     /\ MonthOf(calc.reference) = 2
     /\ DayOf(calc.reference) = 1)
        => /\ YearOf(calc.result) = YearOf(calc.reference)
           /\ MonthOf(calc.result) = 2
           /\ DayOf(calc.result) = GregorianDays(YearOf(calc.reference), 2)
           /\ TodOf(calc.result) = TodOf(calc.anchor)

\* ---------------------------------------------------------------------
\* The next_send of process_nudges as a function of the nudge's repeat and
\* schedule_time and of datetime.now().

\* the local next_send: None for a one-shot nudge
ComputedNextSend(repeat, schedule_time, t) ==
    IF repeat = "none" THEN NoTime ELSE NextSend(repeat, schedule_time, t)

RecurAnchors == {Stamp(2024, 1, d, tod) : d \in {1, 31}, tod \in 0..(SlotsPerDay - 1)}

RecurDates ==
    {c \in CalcYears \X (1..12) \X {1, 22, 25, 28, 29, 30, 31} :
        ValidDate(c[1], c[2], c[3])}

RecurReferences == {Stamp(c[1], c[2], c[3], tod) : c \in RecurDates, tod \in 0..(SlotsPerDay - 1)}

RecurInit ==
    /\ InitStore
    /\ InitSched
    /\ \E a \in RecurAnchors, r \in RecurReferences, repeat \in Repeats :
          calc = [anchor |-> a, reference |-> r, result |-> NoTime, done |-> FALSE,
                  repeat |-> repeat]

ComputeNextSend ==
    /\ ~calc.done
    /\ calc' = [calc EXCEPT
                  !.result = ComputedNextSend(calc.repeat, calc.anchor, calc.reference),
                  !.done = TRUE]
    /\ UNCHANGED <<users, entries, nudges, resp, delivered, pend, base, now, sent, scans, onboard>>

RecurNext == ComputeNextSend

RecurSpec == RecurInit /\ [][RecurNext]_vars

\* the calendar date n days (at most 28) after the date y-m-d
DatePlus(y, m, d, n) ==
    LET last == GregorianDays(y, m) IN
    IF d + n <= last THEN <<y, m, d + n>>
    ELSE IF m = 12 THEN <<y + 1, 1, d + n - last>>
    ELSE <<y, m + 1, d + n - last>>

DateOf(t) == <<YearOf(t), MonthOf(t), DayOf(t)>>

\* C22: daily and weekly recurrence.  The next occurrence of a daily nudge
\* is on the date one day after the reference time's date, that of a
\* weekly nudge on the date seven days after it, both at the time of day
\* of schedule_time; a nudge with repeat 'none' has no next occurrence.
C22_DailyWeekly ==
    calc.done =>
        LET y == YearOf(calc.reference)
            m == MonthOf(calc.reference)
            d == DayOf(calc.reference) IN
        /\ calc.repeat = "daily"
             => /\ DateOf(calc.result) = DatePlus(y, m, d, 1)
                /\ TodOf(calc.result) = TodOf(calc.anchor)
        /\ calc.repeat = "weekly"
             => /\ DateOf(calc.result) = DatePlus(y, m, d, 7)
                /\ TodOf(calc.result) = TodOf(calc.anchor)
        /\ calc.repeat = "none" => calc.result = NoTime

\* a weekly nudge computed on December 28 at another time of day than
\* its schedule_time's: the next occurrence is on January 4
C22_Witness ==
    /\ calc.done
    /\ calc.repeat = "weekly"
    /\ MonthOf(calc.reference) = 12
    /\ DayOf(calc.reference) = 28
    /\ TodOf(calc.reference) # TodOf(calc.anchor)
    /\ DateOf(calc.result) = <<YearOf(calc.reference) + 1, 1, 4>>

\* ---------------------------------------------------------------------
\* C23: the timestamps of a nudge.  Whatever create_nudge and
\* process_nudges requests came, a nudge whose last_sent is set has a
\* next_send that is not earlier than last_sent, or, if it is a one-shot
\* nudge that is done, no next_send at all.
C23_NextSendNotBeforeLastSent ==
    \A n \in DOMAIN nudges :
        nudges[n].last_sent # NoTime
            => \/ nudges[n].next_send >= nudges[n].last_sent
               \/ /\ nudges[n].repeat = "none"
                  /\ ~nudges[n].active
                  /\ nudges[n].next_send = NoTime

\* ---------------------------------------------------------------------
\* Runs of process_nudges over a store of several nudges, some of which
\* cannot be handled: create_nudge stores the user_id of the request body
\* as it is, so a nudge may name a user that has no document.
BatchNudges == 2

BatchOwners == {"u1", "u3"}

BatchRepeats == {"none", "weekly"}

\* the documents create_nudge wrote
BatchStored ==
    {[user_id |-> u, schedule_time |-> st, repeat |-> r, active |-> TRUE,
      last_sent |-> NoTime, next_send |-> st] :
        u \in BatchOwners, st \in ScanSchedules, r \in BatchRepeats}

BatchInit ==
    /\ users = [u \in UserIds |-> NewUser(IF u = "u1" THEN "parent" ELSE "admin")]
    /\ entries = <<>>
    /\ nudges \in [1..BatchNudges -> BatchStored]
    /\ resp = Resp("init", 0, "none", "none", 0)
    /\ delivered = {}
    /\ pend = [w \in Workers |-> Idle]
    /\ base = users
    /\ InitOnboard
    /\ now = ClockStart
    /\ sent = [n \in 1..BatchNudges |-> NoSent]
    /\ scans = [w \in Workers |-> IdleScan]
    /\ calc = NoCalc

BatchOutcomes == [1..BatchNudges -> BOOLEAN]

\* the times of the requests: the 30th, the 31st, a week after
BatchTimes == {ClockStart, Stamp(2024, 1, 31, 0), Stamp(2024, 2, 7, 0)}

BatchNext ==
    \/ \E u \in UserIds, dry_run \in BOOLEAN, ok \in BatchOutcomes,
          raises \in SUBSET (1..BatchNudges) :
          ProcessNudgesWith(u, dry_run, ok, raises)
    \/ TickTo(BatchTimes)

BatchSpec == BatchInit /\ [][BatchNext]_vars

\* a step of process_nudges, called for real by an admin (a step that
\* leaves the time as it is is a request)
RealRunStep ==
    /\ now' = now
    /\ resp'.op = "process_nudges"
    /\ RequireAdmin(users, resp'.user) = 0
    /\ resp'.code = 200 => ~resp'.dry_run

\* C24: batch isolation.  An error in the handling of one due nudge (no
\* user document, no phone number, an exception, a failed send) does not
\* end the run: the response is 200 'completed', and every due nudge is
\* either in the errors of the response or was updated and sent in this
\* run; a nudge whose user has no document is in the errors.
C24_BatchIsolation ==
    [][RealRunStep
         => /\ resp'.code = 200
            /\ resp'.outcome = "completed"
            /\ \A n \in DOMAIN nudges :
                 IsDue(nudges[n], now)
                   => /\ Skipped(users, nudges[n]) => n \in resp'.errors
                      /\ \/ n \in resp'.errors
                         \/ /\ nudges'[n] = Update(nudges[n], ScanUpdate(nudges[n], now))
                            /\ sent'[n].due = nudges[n].next_send]_vars

\* a run has reported an error for the first nudge and sent the second
C24_Witness ==
    /\ resp.op = "process_nudges"
    /\ resp.code = 200
    /\ resp.errors = {1}
    /\ resp.processed_count = 1
    /\ resp.arg = 1
    /\ sent[2].due # NoTime
    /\ sent[1].due = NoTime

\* ---------------------------------------------------------------------
\* update_nudge at the same time as a run of process_nudges.  update_nudge
\* is its read of the document, then its write; between the two
\* scans[w] holds the document read (docs), the request body (data) and
\* the requester (uid), with phase "edit".

\* the decorators, the read of the document, and the 404
EditRead(w, uid, nudge_id, data) ==
    LET gate == CheckSubscriptionStatus(users, uid) IN
    /\ scans[w].phase = "idle"
    /\ UNCHANGED <<users, entries, nudges, delivered, pend, base, now, sent, calc, onboard>>
    /\ IF gate # 0
       THEN /\ resp' = Resp("update_nudge", gate, "denied", uid, nudge_id)
            /\ UNCHANGED scans
       ELSE IF nudge_id \notin DOMAIN nudges
       THEN /\ resp' = Resp("update_nudge", 404, "Nudge not found", uid, nudge_id)
            /\ UNCHANGED scans
       ELSE /\ scans' = [scans EXCEPT ![w] =
                           [phase |-> "edit",
                            docs |-> <<[id |-> nudge_id, nudge |-> nudges[nudge_id]]>>,
                            data |-> data,
                            uid |-> uid,
                            dry_run |-> FALSE,
                            sent_count |-> 0]]
            /\ UNCHANGED resp

\* update_data, computed from the document read, and nudge_ref.update
EditWrite(w) ==
    LET existing == Head(scans[w].docs) IN
    /\ scans[w].phase = "edit"
    /\ UNCHANGED <<users, entries, delivered, pend, base, now, sent, calc, onboard>>
    /\ nudges' = [nudges EXCEPT ![existing.id] =
                     Update(@, NudgeUpdateData(existing.nudge, scans[w].data))]
    /\ resp' = Resp("update_nudge", 200, "updated", scans[w].uid, existing.id)
    /\ scans' = [scans EXCEPT ![w] = IdleScan]

\* the request bodies of the edits: a new schedule_time, or active false
EditBodies ==
    {[has |-> {"schedule_time"}, schedule_time |-> Stamp(2024, 1, 31, 0),
      repeat |-> "none", active |-> TRUE],
     [has |-> {"active"}, schedule_time |-> ClockStart,
      repeat |-> "none", active |-> FALSE]}

EditNext ==
    \/ \E st \in ScanConcSchedules, r \in ScanConcRepeats : CreateNudge("u2", "u1", st, r, TRUE)
    \/ TickTo(BatchTimes)
    \/ \E w \in Workers, u \in UserIds : ScanQuery(w, u, FALSE)
    \/ \E w \in Workers : ScanWrite(w)
    \/ \E w \in Workers, ok \in BOOLEAN : ScanSend(w, ok)
    \/ \E w \in Workers : ScanFinish(w)
    \/ \E w \in Workers, u \in UserIds, n \in 1..MaxNudges, d \in EditBodies :
          EditRead(w, u, n, d)
    \/ \E w \in Workers : EditWrite(w)

EditSpec == ScanInit /\ [][EditNext]_vars

\* the record after update_nudge with body data, run as a whole on doc
Edited(doc, data) == Update(doc, NudgeUpdateData(doc, data))

\* the record after the loop body of process_nudges at time t, run on doc
Scanned(doc, t) == IF IsDue(doc, t) THEN Update(doc, ScanUpdate(doc, t)) ELSE doc

\* C25: no lost update between an edit and a run.  When a run of
\* process_nudges has updated a nudge between the read and the write of
\* an update_nudge request, the record after the write is the record of
\* one of the two serial orders: the run and then the edit, or the edit
\* and then the run.
C25_EditScanSerial ==
    [][\A w \in Workers, t \in BatchTimes :
          (/\ scans[w].phase = "edit"
           /\ EditWrite(w)
           /\ IsDue(Head(scans[w].docs).nudge, t)
           /\ nudges[Head(scans[w].docs).id] = Scanned(Head(scans[w].docs).nudge, t))
            => LET read == Head(scans[w].docs).nudge
                   data == scans[w].data IN
               nudges'[Head(scans[w].docs).id]
                   \in {Edited(Scanned(read, t), data), Scanned(Edited(read, data), t)}]_vars

\* ---------------------------------------------------------------------
\* the event types webhook() hands to a handler
HandledTypes == {"customer.subscription.trial_will_end", "invoice.payment_succeeded",
                 "invoice.payment_failed"}

InvoiceTypes == {"invoice.payment_succeeded", "invoice.payment_failed"}

\* Stripe delivers events while customers are created
WebhookNext ==
    \/ \E ev \in Events : Webhook(ev)
    \/ \E u \in UserIds, c \in CustomerIds, ok \in BOOLEAN : CreateCustomer(u, c, ok)

WebhookSpec == Init /\ [][WebhookNext]_vars

\* C26: events that cannot be applied write nothing.  An event of a type
\* that is not handled, and an invoice payment event without a
\* subscription id, are answered 'ignored'; an event that a handler
\* would apply but whose customer id no user has is answered 'User not
\* found'; in all three cases the user records stay as they are.
C26_UnappliedEventsWriteNothing ==
    [][\A ev \in Events :
          Webhook(ev)
            => LET unhandled == ev.type \notin HandledTypes
                   no_subscription == ev.type \in InvoiceTypes /\ ev.subscription = NoneVal
                   no_user == UsersWhere(users, "stripe_customer_id", ev.customer) = {} IN
               /\ (unhandled \/ no_subscription)
                    => (resp'.outcome = "ignored" /\ users' = users)
               /\ (~unhandled /\ ~no_subscription /\ no_user)
                    => (resp'.outcome = "User not found" /\ users' = users)]_vars

\* an invoice without a subscription has just been ignored for a customer
\* that a user record names
C26_Witness ==
    /\ resp.op \in InvoiceTypes
    /\ resp.outcome = "ignored"
    /\ \E u \in DOMAIN users : users[u].stripe_customer_id \in CustomerIds

\* ---------------------------------------------------------------------
\* C27: a dry run only simulates.  A run of process_nudges with dry_run
\* true sends nothing, reports a sent_count of 0 and leaves every nudge
\* as it was, so that the nudges due before the run are due after it.
C27_DryRunChangesNothing ==
    [][\A o \in SendOutcomes :
          ScanStep(TRUE, o)
            => /\ sent' = sent
               /\ resp'.arg = 0
               /\ nudges' = nudges
               /\ \A n \in DOMAIN nudges :
                    IsDue(nudges[n], now) => IsDue(nudges'[n], now')]_vars

\* ---------------------------------------------------------------------
\* the store after create_customer has given the user a Stripe customer
FlagInit ==
    /\ \E r \in Roles :
          users = CreateCustomerResult([u \in {"u1"} |-> NewUser(r)],
                                       "u1", "cus_1", TRUE).users
    /\ entries = <<>>
    /\ nudges = <<>>
    /\ resp = Resp("init", 0, "none", "none", 0)
    /\ delivered = {}
    /\ pend = [w \in Workers |-> Idle]
    /\ base = users
    /\ InitSched
    /\ calc = NoCalc

\* the requests and events that write subscription_active or
\* subscription_status
FlagNext ==
    \/ \E u \in UserIds : SetupSubscription(u)
    \/ \E c \in CustomerIds, s \in SubscriptionIds, d \in {0, TrialDaysDefault},
          ok \in BOOLEAN : CreateSubscription(c, s, d, ok)
    \/ \E s \in SubscriptionIds, ok \in BOOLEAN : ClientCancel(s, ok)
    \/ \E u \in UserIds : RouteCancel(u)
    \/ \E ev \in Events : Webhook(ev)
    \/ \E u \in UserIds, st \in AdminStatuses : AdminUpdateUser(u, st)

FlagSpec == FlagInit /\ [][FlagNext]_vars

\* C28: the two entitlement gates agree.  Whatever billing requests and
\* events came, a user whose subscription_active is true (the test of the
\* SMS webhook) has a subscription_status that grants write, active or
\* trialing (the test of check_subscription_status).
C28_ActiveFlagFollowsStatus ==
    \A u \in DOMAIN users :
        users[u].subscription_active = PyTrue
            => StatusOf(users, u) \in WriteStatuses

\* ===================================================== routes/invite.py
InviteCodes == {"c1", "c2"}

InvitePhones == {"phone", "phone2"}

InviteRoles == {"co-parent", "caregiver"}

\* role_hierarchy.get(role, 0)
RoleRank(role) ==
    IF role = "admin" THEN 3
    ELSE IF role = "parent" THEN 2
    ELSE IF role = "co-parent" THEN 1
    ELSE 0

\* require_role(required_roles): 0 when the request passes
RequireRole(us, uid, required_roles) ==
    IF uid = NoneVal THEN 401
    ELSE IF ~Exists(us, uid) THEN 404
    ELSE IF Get(us[uid], "role", "caregiver") \notin required_roles THEN 403
    ELSE 0

\* send_invite(): POST /api/invite/send.  The code is the new uuid.
SendInvite(uid, phone_number, role) ==
    LET gate == RequireRole(users, uid, {"parent", "admin"}) IN
    /\ UNCHANGED <<users, entries, nudges, delivered, pend, base, now, sent, scans, calc,
                   verification_codes, code_docs>>
    /\ IF gate # 0
       THEN /\ resp' = Resp("send_invite", gate, "denied", uid, 0)
            /\ UNCHANGED invites
       ELSE \E invite_code \in InviteCodes \ DOMAIN invites :
            /\ invites' = invites @@ (invite_code :>
                             [phone_number |-> phone_number,
                              role |-> role,
                              inviter_id |-> uid,
                              status |-> "pending",
                              expires_at |-> AddDays(now, 7),
                              user_id |-> Absent])
            /\ resp' = Resp("send_invite", 200, "success", uid, invite_code)

\* accept_invite: the checks of the invite document, "none" when it passes
AcceptRefused(invite_data, phone_number, t) ==
    IF t > invite_data.expires_at THEN "Invite has expired"
    ELSE IF invite_data.phone_number # phone_number
    THEN "Phone number does not match invite"
    ELSE IF invite_data.status = "accepted" THEN "Invite has already been accepted"
    ELSE "none"

\* accept_invite(): POST /api/invite/accept
AcceptInvite(invite_code, phone_number) ==
    /\ UNCHANGED <<entries, nudges, delivered, pend, base, now, sent, scans, calc,
                   verification_codes, code_docs>>
    /\ IF invite_code \notin DOMAIN invites
       THEN /\ resp' = Resp("accept_invite", 404, "Invalid invite code", "none", invite_code)
            /\ UNCHANGED <<users, invites>>
       ELSE LET invite_data == invites[invite_code]
                refused == AcceptRefused(invite_data, phone_number, now)
                found == UsersWhere(users, "phone_number", phone_number) IN
            IF refused # "none"
            THEN /\ resp' = Resp("accept_invite", 400, refused, "none", invite_code)
                 /\ UNCHANGED <<users, invites>>
            ELSE \E user_id \in (IF found # {} THEN {FirstOf(found)}
                                 ELSE UserIds \ DOMAIN users) :
                 /\ users' =
                      IF found # {}
                      THEN (IF RoleRank(invite_data.role)
                                 > RoleRank(Get(users[user_id], "role", "caregiver"))
                            THEN UpdateUser(users, user_id, [role |-> invite_data.role])
                            ELSE users)
                      ELSE users @@ (user_id :>
                               [NewUser(invite_data.role) EXCEPT
                                   !.phone_number = phone_number,
                                   !.invited_by = invite_data.inviter_id])
                 /\ invites' = [invites EXCEPT ![invite_code] =
                                  Update(@, [status |-> "accepted", user_id |-> user_id])]
                 /\ resp' = Resp("accept_invite", 200, "success", user_id, invite_code)

\* revoke_invite(): POST /api/invite/revoke, of an invite or of a user
RevokeInvite(uid, revoke_type, revoke_id) ==
    LET gate == RequireRole(users, uid, {"parent", "admin"})
        admin == Exists(users, uid) /\ Get(users[uid], "role", NoneVal) = "admin" IN
    /\ UNCHANGED <<entries, nudges, delivered, pend, base, now, sent, scans, calc,
                   verification_codes, code_docs>>
    /\ IF gate # 0
       THEN /\ resp' = Resp("revoke_invite", gate, "denied", uid, revoke_id)
            /\ UNCHANGED <<users, invites>>
       ELSE IF revoke_type = "invite"
       THEN /\ UNCHANGED users
            /\ IF revoke_id \notin DOMAIN invites
               THEN /\ resp' = Resp("revoke_invite", 404, "Invite not found", uid, revoke_id)
                    /\ UNCHANGED invites
               ELSE IF invites[revoke_id].inviter_id # uid /\ ~admin
               THEN /\ resp' = Resp("revoke_invite", 403, "denied", uid, revoke_id)
                    /\ UNCHANGED invites
               ELSE /\ invites' = [invites EXCEPT ![revoke_id].status = "revoked"]
                    /\ resp' = Resp("revoke_invite", 200, "success", uid, revoke_id)
       ELSE /\ UNCHANGED invites
            /\ IF ~Exists(users, revoke_id)
               THEN /\ resp' = Resp("revoke_invite", 404, "User not found", uid, revoke_id)
                    /\ UNCHANGED users
               ELSE IF Get(users[revoke_id], "invited_by", NoneVal) # uid /\ ~admin
               THEN /\ resp' = Resp("revoke_invite", 403, "denied", uid, revoke_id)
                    /\ UNCHANGED users
               ELSE IF Get(users[revoke_id], "role", NoneVal) \in {"parent", "admin"}
               THEN /\ resp' = Resp("revoke_invite", 400,
                                    "Cannot revoke parent or admin access", uid, revoke_id)
                    /\ UNCHANGED users
               ELSE /\ users' = UpdateUser(users, revoke_id, [status |-> "revoked"])
                    /\ resp' = Resp("revoke_invite", 200, "success", uid, revoke_id)

\* the times of the requests: the day of the invitation, the seventh day
\* after it at the same time of day, and later that day
InviteTimes == {ClockStart, Stamp(2024, 2, 6, 0), Stamp(2024, 2, 6, 1)}

\* the parent u1 invites; the invited accept; invitations are revoked
InviteInit ==
    /\ users = [u \in {"u1"} |-> NewUser("parent")]
    /\ entries = <<>>
    /\ nudges = <<>>
    /\ resp = Resp("init", 0, "none", "none", 0)
    /\ delivered = {}
    /\ pend = [w \in Workers |-> Idle]
    /\ base = users
    /\ InitSched
    /\ calc = NoCalc

InviteNext ==
    \/ \E u \in UserIds, p \in InvitePhones, r \in InviteRoles : SendInvite(u, p, r)
    \/ \E c \in InviteCodes, p \in InvitePhones : AcceptInvite(c, p)
    \/ \E u \in UserIds, c \in InviteCodes : RevokeInvite(u, "invite", c)
    \/ \E u \in UserIds, t \in UserIds : RevokeInvite(u, "user", t)
    \/ TickTo(InviteTimes)

InviteSpec == InviteInit /\ [][InviteNext]_vars

\* C29: an invitation is accepted only while it is pending.  accept_invite
\* refuses an invitation that has been accepted, that revoke_invite has
\* revoked, or whose expires_at has passed, and then creates and changes
\* no user; so no invite code is accepted twice.
C29_AcceptOnlyPending ==
    [][\A c \in InviteCodes, p \in InvitePhones :
          (/\ AcceptInvite(c, p)
           /\ c \in DOMAIN invites
           /\ \/ invites[c].status # "pending"
              \/ now > invites[c].expires_at)
            => /\ resp'.code # 200
               /\ users' = users
               /\ invites' = invites]_vars

\* ======================================================== routes/sms.py
\* the documents the verification_codes collection holds at most
MaxCodeDocs == 2

\* the six digits random.choices may give
VerificationCodes == {"111111", "222222"}

\* verify_phone(): POST /api/sms/verify
VerifyPhone(phone_number, user_id) ==
    /\ UNCHANGED <<users, entries, nudges, delivered, pend, base, now, sent, scans, calc,
                   invites>>
    /\ \E verification_code \in VerificationCodes,
          id \in (1..MaxCodeDocs) \ DOMAIN code_docs :
          /\ verification_codes' =
                [p \in DOMAIN verification_codes \cup {phone_number} |->
                    IF p = phone_number
                    THEN [code |-> verification_code, user_id |-> user_id,
                          created_at |-> now]
                    ELSE verification_codes[p]]
          /\ code_docs' = code_docs @@ (id :> [phone_number |-> phone_number,
                                               code |-> verification_code,
                                               user_id |-> user_id,
                                               used |-> FALSE])
          /\ resp' = Resp("verify_phone", 200, "sent", user_id, <<phone_number>>)

\* more than 1800 seconds lie between created_at and t: the instants of
\* the clock are further apart than that
Expired(created_at, t) == t > created_at

\* the checks of confirm_verification on stored_data, "none" when it passes
ConfirmRefused(stored_data, code, user_id, t) ==
    IF stored_data.code # code THEN "Invalid verification code"
    ELSE IF stored_data.user_id # user_id THEN "User ID mismatch"
    ELSE IF Expired(stored_data.created_at, t) THEN "Verification code expired"
    ELSE "none"

\* confirm_verification from stored_data on: the checks, the update of the
\* user (which raises when there is no such document), the del
ConfirmWith(stored_data, docs, phone_number, code, user_id) ==
    LET refused == ConfirmRefused(stored_data, code, user_id, now) IN
    /\ code_docs' = docs
    /\ IF refused # "none"
       THEN /\ resp' = Resp("confirm_verification", 400, refused, user_id,
                            <<phone_number, code>>)
            /\ UNCHANGED <<users, verification_codes>>
       ELSE IF ~Exists(users, user_id)
       THEN /\ resp' = Resp("confirm_verification", 500, "error", user_id,
                            <<phone_number, code>>)
            /\ UNCHANGED <<users, verification_codes>>
       ELSE /\ users' = UpdateUser(users, user_id,
                           [phone_number |-> phone_number, phone_verified |-> PyTrue])
            /\ verification_codes' =
                  [p \in DOMAIN verification_codes \ {phone_number} |->
                      verification_codes[p]]
            /\ resp' = Resp("confirm_verification", 200, "verified", user_id,
                            <<phone_number, code>>)

\* confirm_verification(): POST /api/sms/confirm
ConfirmVerification(phone_number, code, user_id) ==
    LET unused == {id \in DOMAIN code_docs :
                      /\ code_docs[id].phone_number = phone_number
                      /\ code_docs[id].code = code
                      /\ ~code_docs[id].used} IN
    /\ UNCHANGED <<entries, nudges, delivered, pend, base, now, sent, scans, calc,
                   invites>>
    /\ IF phone_number \in DOMAIN verification_codes
       THEN ConfirmWith(verification_codes[phone_number], code_docs,
                        phone_number, code, user_id)
       ELSE IF unused = {}
       THEN /\ resp' = Resp("confirm_verification", 400, "Invalid verification code",
                            user_id, <<phone_number, code>>)
            /\ UNCHANGED <<users, verification_codes, code_docs>>
       ELSE \E id \in unused :
               ConfirmWith([code |-> code_docs[id].code,
                            user_id |-> code_docs[id].user_id,
                            created_at |-> now],
                           [code_docs EXCEPT ![id].used = TRUE],
                           phone_number, code, user_id)

\* the times of the requests
VerifyTimes == {ClockStart, ClockStart + 1}

VerifyNext ==
    \/ \E p \in InvitePhones, u \in UserIds : VerifyPhone(p, u)
    \/ \E p \in InvitePhones, c \in VerificationCodes, u \in UserIds :
          ConfirmVerification(p, c, u)
    \/ TickTo(VerifyTimes)

VerifySpec == InviteInit /\ [][VerifyNext]_vars

\* C30: verification codes are single-use.  When the last request was a
\* confirm_verification that succeeded for a phone number, a code and a
\* user, so that verify_phone has issued no code since, a
\* confirm_verification with the same phone number, code and user fails.
C30_CodeSingleUse ==
    [][\A p \in InvitePhones, c \in VerificationCodes, u \in UserIds :
          (/\ resp.op = "confirm_verification"
           /\ resp.code = 200
           /\ resp.user = u
           /\ resp.arg = <<p, c>>
           /\ ConfirmVerification(p, c, u))
            => resp'.code # 200]_vars
====
